---- MODULE Spec2Model ----
(***************************************************************************)
(* Model of streamlit_app.py: the NOAA OISST dashboard.  One script run is *)
(* the sequence  sidebar date_input -> load_and_slice_data (observed day)  *)
(* -> load_climatology_data -> anomaly subtraction -> tab 1 -> tab 2.      *)
(* Both loaders are memoized by st.cache_data for the life of the process. *)
(***************************************************************************)
EXTENDS Integers, Sequences, FiniteSets, TLC

(* ------------------------------ bounds -------------------------------- *)
\* number of cells of the lat/lon window kept by the model
NCells == 2
\* cell temperatures delivered by the remote are 0..MaxVal, or missing
MaxVal == 1

(* ------------------------- program constants -------------------------- *)
ClimStart == 1991
ClimEnd == 2020
PublicationLag == 3

Years == ClimStart..ClimEnd
MinDate == <<1981, 9, 1>>

(* ------------------------------- dates -------------------------------- *)
\* datetime.date as <<year, month, day>>
IsLeap(y) == (y % 4 = 0 /\ y % 100 # 0) \/ y % 400 = 0

DaysInMonth(y, m) ==
    IF m = 2 THEN (IF IsLeap(y) THEN 29 ELSE 28)
    ELSE IF m \in {4, 6, 9, 11} THEN 30 ELSE 31

ValidDate(d) ==
    /\ d[2] \in 1..12
    /\ d[3] \in 1..DaysInMonth(d[1], d[2])

DateLE(a, b) ==
    \/ a[1] < b[1]
    \/ a[1] = b[1] /\ a[2] < b[2]
    \/ a[1] = b[1] /\ a[2] = b[2] /\ a[3] <= b[3]

PrevDay(d) ==
    IF d[3] > 1 THEN <<d[1], d[2], d[3] - 1>>
    ELSE IF d[2] > 1 THEN <<d[1], d[2] - 1, DaysInMonth(d[1], d[2] - 1)>>
    ELSE <<d[1] - 1, 12, 31>>

RECURSIVE DateMinus(_, _)
\* date - datetime.timedelta(days=n)
DateMinus(d, n) == IF n = 0 THEN d ELSE DateMinus(PrevDay(d), n - 1)

\* date.toordinal(): days since 0001-01-01, that day being 1
RECURSIVE DaysBeforeMonth(_, _)
DaysBeforeMonth(y, m) ==
    IF m = 1 THEN 0 ELSE DaysBeforeMonth(y, m - 1) + DaysInMonth(y, m - 1)

ToOrdinal(d) ==
    LET p == d[1] - 1
    IN  p * 365 + (p \div 4) - (p \div 100) + (p \div 400)
        + DaysBeforeMonth(d[1], d[2]) + d[3]

(* ------------------------------- grids -------------------------------- *)
\* a cell is the missing-data marker or the exact rational num/den
NaN == [nan |-> TRUE, num |-> 0, den |-> 1]
Num(n, d) == [nan |-> FALSE, num |-> n, den |-> d]

RemoteVals == {NaN} \cup {Num(v, 1) : v \in 0..MaxVal}
Cells == 1..NCells

\* None, and a DataArray over the window
None == [present |-> FALSE, cells |-> <<>>]
Grid(cs) == [present |-> TRUE, cells |-> cs]

\* np.all(np.isnan(values)); true of an empty array
AllNaN(cs) == \A i \in DOMAIN cs : cs[i].nan

\* xr.concat(list, dim="time").mean(dim="time"): per cell the mean over the
\* entries that are not missing (xarray's mean skips NaN for float data),
\* missing when every entry is missing
RECURSIVE SumCell(_, _, _)
SumCell(list, i, k) ==
    IF k = 0 THEN 0
    ELSE SumCell(list, i, k - 1)
         + (IF list[k].cells[i].nan THEN 0 ELSE list[k].cells[i].num)

CountCell(list, i) == Cardinality({k \in DOMAIN list : ~list[k].cells[i].nan})

MeanCell(list, i) ==
    IF CountCell(list, i) = 0 THEN NaN
    ELSE Num(SumCell(list, i, Len(list)), CountCell(list, i))

ConcatMean(list) ==
    Grid([i \in DOMAIN list[1].cells |-> MeanCell(list, i)])

\* sst_data - climatology_data, cell by cell on the shared coordinates
SubCell(o, c) ==
    IF o.nan \/ c.nan THEN NaN
    ELSE Num(o.num * c.den - c.num * o.den, o.den * c.den)

Subtract(o, c) ==
    Grid([i \in DOMAIN o.cells |-> SubCell(o.cells[i], c.cells[i])])

(* ------------------------------ remote -------------------------------- *)
\* the remote dataset: one window of cells, or an empty selection; the day's
\* field is that window rotated by the date, so years differ cell by cell
Worlds == [Cells -> RemoteVals] \cup {<<>>}

RemoteSubset(w, date) ==
    [i \in DOMAIN w |-> w[((i - 1 + date[1] + date[3]) % Len(w)) + 1]]

\* what the network does during one call of load_and_slice_data
Nets == [primary : BOOLEAN, fallback : BOOLEAN, subset : BOOLEAN]
NetUp == [primary |-> TRUE, fallback |-> TRUE, subset |-> TRUE]
NetDown == [primary |-> FALSE, fallback |-> FALSE, subset |-> TRUE]
NetPydap == [primary |-> FALSE, fallback |-> TRUE, subset |-> TRUE]
NetNoSubset == [primary |-> TRUE, fallback |-> TRUE, subset |-> FALSE]

\* the network over the 30 calls of one climatology loop
LoopNets ==
    { [y \in Years |-> NetUp],
      [y \in Years |-> NetDown],
      [y \in Years |-> IF y % 2 = 1 THEN NetNoSubset ELSE NetPydap],
      [y \in Years |-> IF y = ClimEnd THEN NetUp ELSE NetDown] }

(* ------------------------ load_and_slice_data ------------------------- *)
\* the engines xr.open_dataset was called with, in order, and how each ended
OpenDataset(net) ==
    IF net.primary THEN << [op |-> "open", ok |-> TRUE] >>
    ELSE << [op |-> "open", ok |-> FALSE],
            [op |-> "open_pydap", ok |-> net.fallback] >>

\* the remote operations of one call: the opens, then the sel/load of the
\* subset when an open succeeded
RemoteOps(net) ==
    LET o == OpenDataset(net)
    IN  IF o[Len(o)].ok THEN Append(o, [op |-> "load", ok |-> net.subset])
        ELSE o

LoadAndSliceLeaky(date, net, w) ==
    LET ops == RemoteOps(net)
        da == RemoteSubset(w, date)
    IN  IF ~ops[Len(ops)].ok /\ ops[Len(ops)].op = "open_pydap"
        THEN [val |-> None, msgs |-> {}, raised |-> TRUE, ops |-> ops]
        ELSE IF ~ops[Len(ops)].ok
        THEN [val |-> None, msgs |-> {"error", "hint"}, raised |-> FALSE,
              ops |-> ops]
        ELSE IF AllNaN(da)
        THEN [val |-> None, msgs |-> {}, raised |-> FALSE, ops |-> ops]
        ELSE [val |-> Grid(da), msgs |-> {}, raised |-> FALSE, ops |-> ops]

LoadAndSliceNoNaNCheck(date, net, w) ==
    LET ops == RemoteOps(net)
        da == RemoteSubset(w, date)
    IN  IF ~ops[Len(ops)].ok
        THEN [val |-> None, msgs |-> {"error", "hint"}, raised |-> FALSE,
              ops |-> ops]
        ELSE [val |-> Grid(da), msgs |-> {}, raised |-> FALSE, ops |-> ops]

\* the body of load_and_slice_data: the value returned, the st.error/st.info
\* it shows, whether an exception leaves it, and the remote operations made
LoadAndSlice(date, net, w) ==
    LET ops == RemoteOps(net)
        da == RemoteSubset(w, date)
    IN  IF ~ops[Len(ops)].ok
        THEN [val |-> None, msgs |-> {"error", "hint"}, raised |-> FALSE,
              ops |-> ops]
        ELSE IF AllNaN(da)
        THEN [val |-> None, msgs |-> {}, raised |-> FALSE, ops |-> ops]
        ELSE [val |-> Grid(da), msgs |-> {}, raised |-> FALSE, ops |-> ops]

\* st.cache_data: the entry kept for a returned call (None is kept too);
\* a call that raises keeps nothing
CacheStoreSkipNone(c, key, r) ==
    IF r.raised \/ ~r.val.present THEN c
    ELSE (key :> [val |-> r.val, msgs |-> r.msgs]) @@ c

CacheStore(c, key, r) ==
    IF r.raised THEN c
    ELSE (key :> [val |-> r.val, msgs |-> r.msgs]) @@ c

\* one call of the memoized load_and_slice_data from the state st =
\* [cache, reads, opens]: a hit replays the entry, a miss runs the body
CachedLoadAndSlice(st, date, net, w) ==
    IF date \in DOMAIN st.cache
    THEN [val |-> st.cache[date].val, msgs |-> st.cache[date].msgs,
          raised |-> FALSE, st |-> st]
    ELSE LET r == LoadAndSlice(date, net, w)
         IN  [val |-> r.val, msgs |-> r.msgs, raised |-> r.raised,
              st |-> [cache |-> CacheStore(st.cache, date, r),
                      reads |-> (date :> (IF date \in DOMAIN st.reads
                                          THEN st.reads[date] + 1 ELSE 1))
                                @@ st.reads,
                      opens |-> (date :> r.ops) @@ st.opens]]

(* ----------------------- load_climatology_data ------------------------ *)
Picks == { <<1970, 1, 1>>, <<2020, 2, 28>>, <<2020, 2, 29>>, <<2030, 1, 1>> }
Todays == { <<2020, 3, 2>>, <<2026, 11, 4>> }

IsFeb29(d) == d[2] = 2 /\ d[3] = 29

TargetDayKeep(d) == d

\* the day whose climatology is computed: February 28 for February 29
TargetDay(d) == IF IsFeb29(d) THEN <<d[1], 2, 28>> ELSE d

\* the st.warning shown for February 29
LeapNotice(d) == IF IsFeb29(d) THEN {"leap_notice"} ELSE {}

SkipYearFebruary(y, target) == ~IsLeap(y) /\ target[2] = 2

\* the loop's test for leaving a year out
SkipYear(y, target) == ~IsLeap(y) /\ IsFeb29(target)

\* target_day.replace(year=year)
ReplaceYear(target, y) == <<y, target[2], target[3]>>

\* the loop over climatology_period from year y on; acc carries the list
\* of grids, the messages shown, the cache state and the calls made
RECURSIVE ClimLoop(_, _, _, _, _)
ClimLoop(y, acc, target, nets, w) ==
    IF y > ClimEnd \/ acc.raised THEN acc
    ELSE IF SkipYear(y, target) THEN ClimLoop(y + 1, acc, target, nets, w)
    ELSE IF ~ValidDate(ReplaceYear(target, y))
    THEN [acc EXCEPT !.raised = TRUE]
    ELSE LET date == ReplaceYear(target, y)
             r == CachedLoadAndSlice(acc.st, date, nets[y], w)
         IN  ClimLoop(y + 1,
                      [list |-> IF r.val.present THEN Append(acc.list, r.val)
                                ELSE acc.list,
                       msgs |-> acc.msgs \cup r.msgs,
                       st |-> r.st,
                       calls |-> Append(acc.calls, date),
                       raised |-> r.raised],
                      target, nets, w)

ReduceFirst(list) == IF list = <<>> THEN None ELSE list[1]

ReduceNoGuard(list) ==
    IF list = <<>> THEN Grid([i \in Cells |-> NaN]) ELSE ConcatMean(list)

\* the reduction of daily_data_list: None when empty, else the mean
Reduce(list) == IF list = <<>> THEN None ELSE ConcatMean(list)

\* the body of load_climatology_data
LoadClimatology(st, selected, nets, w) ==
    LET target == TargetDay(selected)
        acc == ClimLoop(ClimStart,
                        [list |-> <<>>, msgs |-> LeapNotice(selected),
                         st |-> st, calls |-> <<>>, raised |-> FALSE],
                        target, nets, w)
    IN  [val |-> IF acc.raised THEN None ELSE Reduce(acc.list),
         msgs |-> acc.msgs, raised |-> acc.raised, st |-> acc.st,
         calls |-> acc.calls]

(* --------------------------- map rendering ---------------------------- *)
\* create_map_figure: a figure unless the data is None or empty
CreateMapFigure(data) == data.present /\ Len(data.cells) > 0

\* np.nanmax(np.abs(values)) is zero
MaxAbsZero(data) ==
    /\ \E i \in DOMAIN data.cells : ~data.cells[i].nan
    /\ \A i \in DOMAIN data.cells : data.cells[i].nan \/ data.cells[i].num = 0

\* create_anomaly_map_figure followed by st.pyplot: what can come of it.
\* TwoSlopeNorm(vcenter=0, vmin=-m, vmax=m) raises ValueError for m = 0;
\* for an all-missing grid m is NaN, and whether the norm raises depends on
\* the matplotlib in use
AnomalyFigure(data) ==
    IF ~data.present \/ Len(data.cells) = 0 THEN {"none"}
    ELSE IF MaxAbsZero(data) THEN {"raise"}
    ELSE IF AllNaN(data.cells) THEN {"figure", "raise"}
    ELSE {"figure"}

(* ------------------------------ sidebar ------------------------------- *)
DateInputNoMin(lo, hi) == { d \in Picks : DateLE(d, hi) }

\* st.sidebar.date_input(value=hi, min_value=lo, max_value=hi): the dates
\* the widget hands to the script
DateInput(lo, hi) == { d \in Picks : DateLE(lo, d) /\ DateLE(d, hi) }

\* datetime.date.today() - datetime.timedelta(days=3)
DefaultDate(t) == DateMinus(t, PublicationLag)

(* ---------------------------- the script ------------------------------ *)
VARIABLES
    remote,            \* the remote dataset
    today,             \* datetime.date.today() at the latest run
    pc,                \* where the current script run stands
    selected_date,     \* the sidebar's date
    sst_data,          \* the observed-day grid or None
    climatology_data,  \* the 30-year mean or None
    anomaly_data,      \* sst_data - climatology_data or None
    fetchCache,        \* st.cache_data of load_and_slice_data, by date
    climCache,         \* st.cache_data of load_climatology_data, by date
    reads,             \* per date, how often load_and_slice_data's body ran
    opens,             \* per date, the remote operations of the body's latest run
    climCalls,         \* per date, the fetches load_climatology_data made
    observedCalls,     \* the dates the main logic fetched the observed day for
    shown,             \* the notices on the page in this run
    rendered,          \* the maps drawn in this run
    fault              \* an exception ended this run

vars == << remote, today, pc, selected_date, sst_data, climatology_data,
           anomaly_data, fetchCache, climCache, reads, opens, climCalls,
           observedCalls, shown, rendered, fault >>

NoDate == <<0, 0, 0>>
FetchState == [cache |-> fetchCache, reads |-> reads, opens |-> opens]

Init ==
    /\ remote \in Worlds
    /\ today \in Todays
    /\ pc = "idle"
    /\ selected_date = NoDate
    /\ sst_data = None
    /\ climatology_data = None
    /\ anomaly_data = None
    /\ fetchCache = <<>>
    /\ climCache = <<>>
    /\ reads = <<>>
    /\ opens = <<>>
    /\ climCalls = <<>>
    /\ observedCalls = {}
    /\ shown = {}
    /\ rendered = {}
    /\ fault = FALSE

\* a script run starts: the sidebar yields the selected date
SelectDate ==
    /\ pc = "idle"
    /\ \E t \in Todays :
         /\ DateLE(today, t)
         /\ today' = t
         /\ \E d \in DateInput(MinDate, DefaultDate(t)) : selected_date' = d
    /\ pc' = "observed"
    /\ sst_data' = None
    /\ climatology_data' = None
    /\ anomaly_data' = None
    /\ shown' = {}
    /\ rendered' = {}
    /\ fault' = FALSE
    /\ UNCHANGED << remote, fetchCache, climCache, reads, opens, climCalls,
                    observedCalls >>

\* sst_data = load_and_slice_data(selected_date), and the branch on it
FetchObserved ==
    /\ pc = "observed"
    /\ \E net \in Nets :
         LET r == CachedLoadAndSlice(FetchState, selected_date, net, remote)
         IN  /\ fetchCache' = r.st.cache
             /\ reads' = r.st.reads
             /\ opens' = r.st.opens
             /\ sst_data' = r.val
             /\ fault' = r.raised
             /\ IF r.raised
                THEN shown' = shown /\ pc' = "idle"
                ELSE IF r.val.present /\ Len(r.val.cells) > 0
                THEN shown' = shown \cup r.msgs /\ pc' = "climatology"
                ELSE IF r.val.present
                THEN /\ shown' = shown \cup r.msgs \cup {"no_data_warning"}
                     /\ pc' = "idle"
                ELSE shown' = shown \cup r.msgs /\ pc' = "idle"
    /\ observedCalls' = observedCalls \cup {selected_date}
    /\ UNCHANGED << remote, today, selected_date, climatology_data,
                    anomaly_data, climCache, climCalls, rendered >>

\* climatology_data = load_climatology_data(selected_date), memoized
FetchClimatology ==
    /\ pc = "climatology"
    /\ IF selected_date \in DOMAIN climCache
       THEN /\ climatology_data' = climCache[selected_date].val
            /\ shown' = shown \cup climCache[selected_date].msgs
            /\ pc' = "anomaly"
            /\ UNCHANGED << fetchCache, reads, opens, climCache, climCalls,
                            fault >>
       ELSE \E nets \in LoopNets :
              LET r == LoadClimatology(FetchState, selected_date, nets, remote)
              IN  /\ fetchCache' = r.st.cache
                  /\ reads' = r.st.reads
                  /\ opens' = r.st.opens
                  /\ climCache' = CacheStore(climCache, selected_date, r)
                  /\ climCalls' = (selected_date :> r.calls) @@ climCalls
                  /\ climatology_data' = r.val
                  /\ fault' = r.raised
                  /\ shown' = IF r.raised THEN shown ELSE shown \cup r.msgs
                  /\ pc' = IF r.raised THEN "idle" ELSE "anomaly"
    /\ UNCHANGED << remote, today, selected_date, sst_data, anomaly_data,
                    observedCalls, rendered >>

AnomalyReversed(o, c) == IF c.present THEN Subtract(c, o) ELSE None

\* anomaly_data = sst_data - climatology_data, or None without climatology
Anomaly(o, c) == IF c.present THEN Subtract(o, c) ELSE None

ComputeAnomaly ==
    /\ pc = "anomaly"
    /\ anomaly_data' = Anomaly(sst_data, climatology_data)
    /\ pc' = "tab1"
    /\ UNCHANGED << remote, today, selected_date, sst_data, climatology_data,
                    fetchCache, climCache, reads, opens, climCalls,
                    observedCalls, shown, rendered, fault >>

\* tab 1: the observed-day map
RenderTab1 ==
    /\ pc = "tab1"
    /\ rendered' = IF CreateMapFigure(sst_data) THEN rendered \cup {"sst"}
                   ELSE rendered
    /\ pc' = "tab2"
    /\ UNCHANGED << remote, today, selected_date, sst_data, climatology_data,
                    anomaly_data, fetchCache, climCache, reads, opens,
                    climCalls, observedCalls, shown, fault >>

Tab2Always(a, out) ==
    [rendered |-> IF out = "figure" THEN {"anomaly"} ELSE {},
     shown |-> {},
     fault |-> out = "raise"]

\* tab 2 for anomaly a when the figure call ends as out: the map drawn,
\* the warning shown, the exception raised
Tab2(a, out) ==
    IF a.present
    THEN [rendered |-> IF out = "figure" THEN {"anomaly"} ELSE {},
          shown |-> {},
          fault |-> out = "raise"]
    ELSE [rendered |-> {}, shown |-> {"anomaly_warning"}, fault |-> FALSE]

\* tab 2: the anomaly map, or the warning that there is none
RenderTab2 ==
    /\ pc = "tab2"
    /\ \E out \in AnomalyFigure(anomaly_data) :
         LET t == Tab2(anomaly_data, out)
         IN  /\ rendered' = rendered \cup t.rendered
             /\ shown' = shown \cup t.shown
             /\ fault' = t.fault
    /\ pc' = "idle"
    /\ UNCHANGED << remote, today, selected_date, sst_data, climatology_data,
                    anomaly_data, fetchCache, climCache, reads, opens,
                    climCalls, observedCalls >>

Next ==
    \/ SelectDate
    \/ FetchObserved
    \/ FetchClimatology
    \/ ComputeAnomaly
    \/ RenderTab1
    \/ RenderTab2

Spec == Init /\ [][Next]_vars

(* ------------------------------ claims -------------------------------- *)
Present(v) == v.present
SomeValue(v) == \E i \in DOMAIN v.cells : ~v.cells[i].nan
Failed(ops) == ~ops[Len(ops)].ok
RatEq(x, y) == x.num * y.den = y.num * x.den
AddCell(a, c) == Num(a.num * c.den + c.num * a.den, a.den * c.den)
NYears == ClimEnd - ClimStart + 1

RECURSIVE SumOver(_, _)
SumOver(S, f) ==
    IF S = {} THEN 0
    ELSE LET x == CHOOSE x \in S : TRUE IN f[x] + SumOver(S \ {x}, f)

\* the calls of a climatology run whose fetch returned a grid
Contributing(calls) ==
    { k \in DOMAIN calls :
        calls[k] \in DOMAIN fetchCache /\ fetchCache[calls[k]].val.present }

CellOf(calls, k, i) == fetchCache[calls[k]].val.cells[i]

\* C1: load_and_slice_data returns None or a grid with at least one cell
\* that is not missing, never a grid whose cells are all NaN: this holds of
\* every value it has returned (all are kept in the cache) and of sst_data.
C1_NeverAllMissingGrid ==
    /\ \A d \in DOMAIN fetchCache :
         Present(fetchCache[d].val) => SomeValue(fetchCache[d].val)
    /\ Present(sst_data) => SomeValue(sst_data)

\* C1 witness: a date whose subset loaded without failure, was all missing,
\* and came back as None without an error message
C1_Witness ==
    \E d \in DOMAIN fetchCache :
        /\ ~Failed(opens[d])
        /\ Len(remote) > 0
        /\ AllNaN(RemoteSubset(remote, d))
        /\ fetchCache[d] = [val |-> None, msgs |-> {}]

\* C2: a failure of both opens or of the subset/load is caught inside
\* load_and_slice_data: the call returns None (and that return is memoized)
\* with the error and the hint shown; pydap is tried only after the primary
\* open failed; and no run is ended by an exception of the loaders (a run
\* ends in a fault only after both grids were there to subtract).
C2_FetchFailureIsAbsence ==
    /\ \A d \in DOMAIN opens :
         /\ \A k \in DOMAIN opens[d] :
              opens[d][k].op = "open_pydap" =>
                  k = 2 /\ opens[d][1] = [op |-> "open", ok |-> FALSE]
         /\ Failed(opens[d]) =>
              /\ d \in DOMAIN fetchCache
              /\ fetchCache[d].val = None
              /\ {"error", "hint"} \subseteq fetchCache[d].msgs
    /\ fault => Present(sst_data) /\ Present(climatology_data)
    /\ (pc = "idle" /\ selected_date \in DOMAIN opens
          /\ Failed(opens[selected_date]))
         => sst_data = None /\ {"error", "hint"} \subseteq shown /\ ~fault

\* C2 witness: the observed-day fetch failed in both opens and the run ended
\* with the error shown
C2_Witness ==
    /\ pc = "idle"
    /\ selected_date \in DOMAIN opens
    /\ opens[selected_date] = << [op |-> "open", ok |-> FALSE],
                                 [op |-> "open_pydap", ok |-> FALSE] >>
    /\ "error" \in shown

\* C3 as amended: load_climatology_data calls the Fetcher once per year
\* 1991..2020 for the selected month and day (day 28 when February 29 is
\* selected); it returns None when no call returned a grid, and otherwise a
\* grid whose every cell is the mean of the values that are not missing
\* among the years whose fetch returned a grid, missing when there is none.
C3_MeanOfPresentValues ==
    \A sel \in DOMAIN climCalls :
        LET calls == climCalls[sel]
            day == IF IsFeb29(sel) THEN 28 ELSE sel[3]
            K == Contributing(calls)
            clim == climCache[sel].val
        IN  /\ Len(calls) = NYears
            /\ \A k \in DOMAIN calls :
                 calls[k] = <<ClimStart + k - 1, sel[2], day>>
            /\ Present(clim) <=> K # {}
            /\ Present(clim) =>
                 \A i \in Cells :
                     LET Ki == { k \in K : ~CellOf(calls, k, i).nan }
                         v == [k \in Ki |-> CellOf(calls, k, i).num]
                         c == clim.cells[i]
                     IN  IF Ki = {} THEN c.nan
                         ELSE /\ ~c.nan
                              /\ c.num * Cardinality(Ki) = c.den * SumOver(Ki, v)

\* C3 witness: a climatology over some but not all of the 30 years whose
\* mean at some cell lies strictly between the values delivered
C3_Witness ==
    \E sel \in DOMAIN climCalls :
        LET K == Contributing(climCalls[sel])
            clim == climCache[sel].val
        IN  /\ K # {}
            /\ Cardinality(K) < NYears
            /\ \E i \in Cells :
                 /\ ~clim.cells[i].nan
                 /\ 0 < clim.cells[i].num
                 /\ clim.cells[i].num < clim.cells[i].den

\* C3 as stated: one call per year for the selected month and day (its
\* DateKey, February 28 standing for February 29), and each cell the plain
\* mean over all the years whose fetch returned a grid, so that a year
\* missing at a cell makes the mean missing there.
C3_Original ==
    \A sel \in DOMAIN climCalls :
        LET calls == climCalls[sel]
            day == IF IsFeb29(sel) THEN 28 ELSE sel[3]
            K == Contributing(calls)
            clim == climCache[sel].val
        IN  /\ Len(calls) = NYears
            /\ \A k \in DOMAIN calls :
                 calls[k] = <<ClimStart + k - 1, sel[2], day>>
            /\ Present(clim) <=> K # {}
            /\ Present(clim) =>
                 \A i \in Cells :
                     LET v == [k \in K |-> CellOf(calls, k, i).num]
                         c == clim.cells[i]
                     IN  IF \E k \in K : CellOf(calls, k, i).nan THEN c.nan
                         ELSE /\ ~c.nan
                              /\ c.num * Cardinality(K) = c.den * SumOver(K, v)

\* every year of the window returned absence for the day of sel
AllYearsAbsent(sel) ==
    \A y \in Years :
        LET d == <<y, sel[2], IF IsFeb29(sel) THEN 28 ELSE sel[3]>>
        IN  d \in DOMAIN fetchCache /\ ~Present(fetchCache[d].val)

\* C4: when the Fetcher returned absence for every year 1991..2020,
\* load_climatology_data returns None, the subtraction is not executed
\* (anomaly_data is None), and the run ends without a fault, with the
\* warning in place of the anomaly map.
C4_AllYearsAbsentNoFault ==
    /\ \A sel \in DOMAIN climCache :
         AllYearsAbsent(sel) => climCache[sel].val = None
    /\ (pc \in {"anomaly", "tab1", "tab2"} /\ AllYearsAbsent(selected_date))
         => climatology_data = None /\ anomaly_data = None /\ ~fault
    /\ (pc = "idle" /\ Present(sst_data) /\ AllYearsAbsent(selected_date))
         => /\ climatology_data = None
            /\ anomaly_data = None
            /\ ~fault
            /\ "anomaly_warning" \in shown

\* C4 witness: a run with the observed day present ended after all 30
\* climatology fetches, each of them made, returned absence
C4_Witness ==
    /\ pc = "idle"
    /\ Present(sst_data)
    /\ selected_date \in DOMAIN climCalls
    /\ Len(climCalls[selected_date]) = NYears
    /\ AllYearsAbsent(selected_date)
    /\ \E y \in Years : Failed(opens[<<y, 2, 28>>])

\* C5: the climatology of February 29 of a year and of February 28 of that
\* year make the same per-year fetches (February 28 of 1991..2020) and
\* return the same result; the leap-day notice is shown for February 29 and
\* for no other date.
C5_LeapDayAsFeb28 ==
    /\ \A sel \in DOMAIN climCalls :
         LET twin == <<sel[1], 2, 28>>
         IN  IsFeb29(sel) =>
               /\ climCalls[sel] = [k \in 1..NYears |-> <<ClimStart + k - 1, 2, 28>>]
               /\ twin \in DOMAIN climCalls =>
                    /\ climCalls[twin] = climCalls[sel]
                    /\ climCache[twin].val = climCache[sel].val
    /\ \A sel \in DOMAIN climCache :
         "leap_notice" \in climCache[sel].msgs <=> IsFeb29(sel)
    /\ pc \in {"anomaly", "tab1", "tab2"} =>
         ("leap_notice" \in shown <=> IsFeb29(selected_date))

\* C5 witness: both days of one year were computed in one process, with a
\* grid as the result, and the current run of February 29 shows the notice
C5_Witness ==
    /\ pc = "tab2"
    /\ IsFeb29(selected_date)
    /\ "leap_notice" \in shown
    /\ selected_date \in DOMAIN climCalls
    /\ <<selected_date[1], 2, 28>> \in DOMAIN climCalls
    /\ Present(climCache[selected_date].val)

\* C6 as amended: for February 29 no year of the window is left out: the
\* date is replaced by February 28 before the loop, so a fetch of February
\* 28 is made in every year 1991..2020, the non-leap years included, and
\* the non-leap years that return a grid enter the mean.
C6_NoYearSkipped ==
    \A sel \in DOMAIN climCalls :
        IsFeb29(sel) =>
            /\ \A y \in Years :
                 \E k \in DOMAIN climCalls[sel] : climCalls[sel][k] = <<y, 2, 28>>
            /\ \A k \in DOMAIN climCalls[sel] : ~IsFeb29(climCalls[sel][k])

\* C6 witness: a February 29 climatology in which a non-leap year was
\* fetched and returned a grid
C6_Witness ==
    \E sel \in DOMAIN climCalls :
        /\ IsFeb29(sel)
        /\ \E k \in Contributing(climCalls[sel]) : ~IsLeap(climCalls[sel][k][1])

\* C6 as stated: for February 29 no fetch is made for a non-leap year.
C6_Original ==
    \A sel \in DOMAIN climCalls :
        IsFeb29(sel) =>
            \A k \in DOMAIN climCalls[sel] : IsLeap(climCalls[sel][k][1])

\* C7: every observed-day call of load_and_slice_data is for a date from
\* 1981-09-01 on and at least three days before today.
C7_ObservedDateInCoverage ==
    \A d \in observedCalls :
        /\ ToOrdinal(d) >= ToOrdinal(<<1981, 9, 1>>)
        /\ ToOrdinal(today) - ToOrdinal(d) >= PublicationLag

\* C7 witness: the observed day was fetched for the latest date allowed,
\* three days before today, while earlier and later dates were on offer
C7_Witness ==
    /\ pc = "climatology"
    /\ selected_date \in observedCalls
    /\ ToOrdinal(today) - ToOrdinal(selected_date) = PublicationLag
    /\ \E d \in Picks : ToOrdinal(d) < ToOrdinal(<<1981, 9, 1>>)
    /\ \E d \in Picks : ToOrdinal(d) > ToOrdinal(today)

\* C8: the anomaly is observed minus climatology cell by cell: adding the
\* climatology back gives the observed value at every cell where both are
\* there, and the anomaly is missing exactly where one of them is.
C8_AnomalyRoundTrip ==
    (pc \in {"tab1", "tab2"} /\ Present(climatology_data)) =>
        /\ Present(anomaly_data)
        /\ DOMAIN anomaly_data.cells = DOMAIN sst_data.cells
        /\ \A i \in DOMAIN sst_data.cells :
             LET o == sst_data.cells[i]
                 c == climatology_data.cells[i]
                 a == anomaly_data.cells[i]
             IN  /\ a.nan <=> (o.nan \/ c.nan)
                 /\ ~a.nan => a.den > 0 /\ RatEq(AddCell(a, c), o)

\* C8 witness: an anomaly with a cell that is neither zero nor missing
C8_Witness ==
    /\ pc = "tab1"
    /\ Present(anomaly_data)
    /\ \E i \in DOMAIN anomaly_data.cells :
         ~anomaly_data.cells[i].nan /\ anomaly_data.cells[i].num # 0

\* C9: a run with the observed grid present and the climatology absent ends
\* with the observed map drawn, no anomaly map, and the warning shown; an
\* anomaly map is drawn only when both grids are present.
C9_ObservedMapWithoutClimatology ==
    /\ (pc = "idle" /\ Present(sst_data) /\ ~Present(climatology_data) /\ ~fault)
         => /\ "sst" \in rendered
            /\ "anomaly" \notin rendered
            /\ "anomaly_warning" \in shown
    /\ (pc = "tab2" /\ ~Present(climatology_data)) => "sst" \in rendered
    /\ "anomaly" \in rendered =>
         Present(sst_data) /\ Present(climatology_data)
    /\ "anomaly_warning" \in shown => ~Present(climatology_data)

\* C9 witness: such a run has ended
C9_Witness ==
    /\ pc = "idle"
    /\ Present(sst_data)
    /\ ~Present(climatology_data)
    /\ rendered = {"sst"}
    /\ "anomaly_warning" \in shown

\* C10: the body of load_and_slice_data runs at most once per date; once a
\* date has returned, with a grid or with absence, its entry stays in the
\* cache unchanged, so a failed date is not read again; and every later
\* request is answered with the entry.
C10_Invariant ==
    /\ DOMAIN reads = DOMAIN fetchCache
    /\ \A d \in DOMAIN reads : reads[d] = 1
    /\ \A d \in DOMAIN opens : Failed(opens[d]) => fetchCache[d].val = None
    /\ pc \in {"climatology", "anomaly", "tab1", "tab2"} =>
         sst_data = fetchCache[selected_date].val

C10_Step ==
    /\ \A d \in DOMAIN fetchCache :
         d \in DOMAIN fetchCache' /\ fetchCache'[d] = fetchCache[d]
    /\ \A d \in DOMAIN reads : reads'[d] = reads[d]
    /\ \A d \in DOMAIN climCache :
         d \in DOMAIN climCache' /\ climCache'[d] = climCache[d]

C10_ReadOncePerDate == [](C10_Invariant) /\ [][C10_Step]_vars

\* C10 witness: a date whose fetch failed was requested both as the
\* observed day of one run and by the climatology loop of another, and was
\* read once
C10_Witness ==
    /\ <<2020, 2, 28>> \in DOMAIN opens
    /\ Failed(opens[<<2020, 2, 28>>])
    /\ <<2020, 2, 28>> \in observedCalls
    /\ <<2020, 2, 29>> \in DOMAIN climCalls
    /\ reads[<<2020, 2, 28>>] = 1
====
